---------------------------- MODULE Spec2Model ----------------------------
(***************************************************************************)
(* A model of the NER benchmark harness: the benchmark tool                *)
(* (benchmark/cli.py), the comparator tool (comparator/cli.py), the two    *)
(* service adapters (comparator/engines/nameres.py, sapbert.py) and the    *)
(* spreadsheet loader (benchmark/google_sheet_benchmarks.py).              *)
(*                                                                         *)
(* One behaviour is one run of one program: Init picks which program runs  *)
(* (tool) and its command line; the actions are the steps of that          *)
(* program.  The remote services and the files are the environment: every  *)
(* HTTP response and every input row is drawn from a small set.            *)
(*                                                                         *)
(* Python strings are sequences of one-character strings, so that lower(), *)
(* strip(), startswith() and the "biolink:" prefixing are computed.        *)
(* Python None is the integer None (-1): ranks are 1-based, so it is no    *)
(* rank.  A dict is a function from its keys; column names and dict keys   *)
(* that the code writes as literals are TLA+ strings.                      *)
(***************************************************************************)
EXTENDS Integers, Sequences, FiniteSets, TLC

VARIABLES
    tool,          \* which program runs: "helpers", "benchmark", "comparator"
    pc,            \* the position of the program in its code
    opts,          \* the command line options of the run
    continue_file, \* comparator: the file --continue names, as it is on disk
    hargs,         \* helpers: the arguments of the helper call
    hres,          \* helpers: the value it returned
    nBench,        \* benchmark: len(benchmarks), the rows loaded from the sheet
    idx,           \* the number of input rows the loop has taken so far
    benchm,        \* benchmark: the Benchmark of the current iteration
    text,          \* the query text of the current iteration
    text_type,     \* the type hint of the current iteration
    row,           \* the row dict of the current iteration
    stats,         \* benchmark: the aggregate statistics (defaultdict(int))
    results,       \* nameres_results / sapbert_results of the latest call
    calls,         \* the annotate calls issued for the current row, in order
    out,           \* per data row written to the output CSV: the number of
                   \* the input row it was written for
    written,       \* the row dict handed to writerow by the latest step
    sleeps,        \* the number of time.sleep(SLEEP_BETWEEN_ROWS) calls so far
    printed,       \* benchmark: the summary lines printed at the end
    result_cache,  \* comparator: query text -> row of the continuation file
    fieldnames     \* comparator: the columns of the input CSV

vars == <<tool, pc, opts, continue_file, hargs, hres, nBench, idx, benchm, text, text_type,
          row, results, stats, calls, out, written, sleeps, printed, result_cache,
          fieldnames>>

-----------------------------------------------------------------------------
(* Bounds of the model. *)

\* The longest list rank_str_in_list is applied to in helper runs.
MaxItems == 3
\* The largest count divide_to_str is applied to in helper runs.
MaxCount == 6
\* The most input rows of a run (sheet rows, or rows of the input CSV).
MaxRows == 2
\* The most rows of a continuation file.
MaxContRows == 2

-----------------------------------------------------------------------------
(* Python values. *)

\* Python's None, where the other values are ranks (integers from 1).
None == -1

\* The empty string.
EmptyStr == << >>

\* The empty dict.  It is also the value of a local variable of the loop body
\* that holds nothing: before the first iteration, and after an iteration has
\* ended (each local is assigned again before the next iteration reads it).
NoRow == << >>

\* dict.get(k, default)
Get(d, k, default) == IF k \in DOMAIN d THEN d[k] ELSE default

\* Python truthiness of an int or None (if row['nameres_id_rank']:).
Truthy(v) == v # None /\ v # 0

UpperToLower ==
    [c \in {"A","B","C","D","E","F","G","H","I","J","K","L","M","N","O","P",
            "Q","R","S","T","U","V","W","X","Y","Z"} |->
       CASE c = "A" -> "a" [] c = "B" -> "b" [] c = "C" -> "c" [] c = "D" -> "d"
         [] c = "E" -> "e" [] c = "F" -> "f" [] c = "G" -> "g" [] c = "H" -> "h"
         [] c = "I" -> "i" [] c = "J" -> "j" [] c = "K" -> "k" [] c = "L" -> "l"
         [] c = "M" -> "m" [] c = "N" -> "n" [] c = "O" -> "o" [] c = "P" -> "p"
         [] c = "Q" -> "q" [] c = "R" -> "r" [] c = "S" -> "s" [] c = "T" -> "t"
         [] c = "U" -> "u" [] c = "V" -> "v" [] c = "W" -> "w" [] c = "X" -> "x"
         [] c = "Y" -> "y" [] c = "Z" -> "z"]

\* str.lower()
Lower(s) ==
    [i \in 1..Len(s) |-> IF s[i] \in DOMAIN UpperToLower THEN UpperToLower[s[i]] ELSE s[i]]

Whitespace == {" ", "\t", "\n", "\r"}

\* str.strip(): without its leading and trailing whitespace.
Strip(s) ==
    LET keep == {i \in 1..Len(s) : s[i] \notin Whitespace}
    IN  IF keep = {} THEN EmptyStr
        ELSE LET lo == CHOOSE i \in keep : \A j \in keep : i <= j
                 hi == CHOOSE i \in keep : \A j \in keep : j <= i
             IN  SubSeq(s, lo, hi)

\* str.startswith(prefix)
StartsWith(s, prefix) ==
    Len(s) >= Len(prefix) /\ SubSeq(s, 1, Len(prefix)) = prefix

-----------------------------------------------------------------------------
(* The strings of the model's inputs. *)

S_kidney == <<"k", "i", "d", "n", "e", "y">>
S_Kidney == <<"K", "i", "d", "n", "e", "y">>
S_KIDNEY == <<"K", "I", "D", "N", "E", "Y">>
S_aspirin == <<"a", "s", "p", "i", "r", "i", "n">>
S_Aspirin == <<"A", "s", "p", "i", "r", "i", "n">>
S_UBERON_0002113 == <<"U", "B", "E", "R", "O", "N", ":", "0", "0", "0", "2", "1", "1", "3">>
S_uberon_0002113 == <<"u", "b", "e", "r", "o", "n", ":", "0", "0", "0", "2", "1", "1", "3">>
S_CHEBI_15365 == <<"C", "H", "E", "B", "I", ":", "1", "5", "3", "6", "5">>
S_NA_padded == <<" ", "N", "A", " ">>
S_biolink_NamedThing == <<"b", "i", "o", "l", "i", "n", "k", ":", "N", "a", "m", "e", "d", "T", "h", "i", "n", "g">>
S_Disease == <<"D", "i", "s", "e", "a", "s", "e">>
S_Drug == <<"D", "r", "u", "g">>
S_biolink_Disease == <<"b", "i", "o", "l", "i", "n", "k", ":", "D", "i", "s", "e", "a", "s", "e">>
S_biolink_AnatomicalEntity == <<"b", "i", "o", "l", "i", "n", "k", ":", "A", "n", "a", "t", "o", "m", "i", "c", "a", "l", "E", "n", "t", "i", "t", "y">>
S_biolink_ChemicalEntity == <<"b", "i", "o", "l", "i", "n", "k", ":", "C", "h", "e", "m", "i", "c", "a", "l", "E", "n", "t", "i", "t", "y">>
S_biolink_prefix == <<"b", "i", "o", "l", "i", "n", "k", ":">>
S_na == <<"n", "a">>
S_none == <<"n", "o", "n", "e">>
S_entity == <<"e", "n", "t", "i", "t", "y">>
S_biolink_entity == <<"b", "i", "o", "l", "i", "n", "k", ":", "e", "n", "t", "i", "t", "y">>
S_namedthing == <<"n", "a", "m", "e", "d", "t", "h", "i", "n", "g">>
S_biolink_namedthing == <<"b", "i", "o", "l", "i", "n", "k", ":", "n", "a", "m", "e", "d", "t", "h", "i", "n", "g">>
S_score_09 == <<"0", ".", "9">>
S_score_05 == <<"0", ".", "5">>
S_bench == <<"b", "e", "n", "c", "h">>
S_check == <<"c", "h", "e", "c", "k">>

-----------------------------------------------------------------------------
(* benchmark/cli.py: configuration and helper methods. *)

RESULTS_TO_DOWNLOAD == 10
SLEEP_BETWEEN_ROWS == 2

\* list.index(query) + 1 with the mutation "forgets the + 1".
rank_str_in_list_ZeroBased(query, items) ==
    IF \E i \in 1..Len(items) : items[i] = query
    THEN (CHOOSE i \in 1..Len(items) :
            items[i] = query /\ \A j \in 1..(i - 1) : items[j] # query) - 1
    ELSE None

\* rank_str_in_list(query, items): items.index(query) + 1, the 1-based
\* position of the first item equal to query; None on ValueError.
rank_str_in_list(query, items) ==
    IF \E i \in 1..Len(items) : items[i] = query
    THEN CHOOSE i \in 1..Len(items) :
            items[i] = query /\ \A j \in 1..(i - 1) : items[j] # query
    ELSE None

\* f"{x:.3f}" of x = n/d, in thousandths.  The quotient is rounded to the
\* nearest thousandth; an exact tie goes to the even neighbour.  (A tie needs
\* 2000*n = (2q+1)*d, so d a multiple of 16; the float n/d is then exact.)
Format3f(n, d) ==
    LET q == (1000 * n) \div d
        r == (1000 * n) % d
    IN  IF 2 * r > d THEN q + 1
        ELSE IF 2 * r < d THEN q
        ELSE IF q % 2 = 0 THEN q ELSE q + 1

\* divide_to_str with the zero test dropped: float(n)/d raises
\* ZeroDivisionError when d is 0.
divide_to_str_NoZeroTest(n, d) ==
    IF d = 0
    THEN [raised |-> "ZeroDivisionError"]
    ELSE [raised |-> "", na |-> FALSE, milli |-> Format3f(n, d), n |-> n, d |-> d]

\* divide_to_str(n, d): "NA (n/d)" when d is 0, else "x.xxx (n/d)".  The
\* string is kept as its parts: na, the thousandths of the quotient, n and d.
divide_to_str(n, d) ==
    IF d = 0
    THEN [raised |-> "", na |-> TRUE, milli |-> 0, n |-> n, d |-> d]
    ELSE [raised |-> "", na |-> FALSE, milli |-> Format3f(n, d), n |-> n, d |-> d]

-----------------------------------------------------------------------------
(* The service adapters.  A response is what the HTTP call gave:            *)
(*   [exc |-> TRUE]                     the call raised (transport error)   *)
(*   [exc |-> FALSE, ok |-> FALSE]      a non-success status                *)
(*   [exc |-> FALSE, ok |-> TRUE, json |-> results]                         *)
(* annotate returns [raised |-> TRUE] or [raised |-> FALSE, value |-> list]. *)

SAPBERT_MODEL_NAME == "sapbert"
SAPBERT_COUNT == 1000

\* NameResNEREngine.annotate: the query parameters of the GET.
NameResRequest(text_, props, limit) ==
    LET base == [autocomplete |-> "false", offset |-> 0, limit |-> limit,
                 string |-> text_,
                 biolink_type |-> Get(props, "biolink_type", EmptyStr)]
    IN  IF Get(props, "skip_umls", EmptyStr) # EmptyStr
        THEN base @@ ("exclude_prefixes" :> "UMLS")
        ELSE base

\* NameResNEREngine.annotate: one result of the response as an annotation.
NameResAnnotation(text_, result) ==
    LET biolink_types == Get(result, "types", << >>)
    IN  [text |-> text_,
         span |-> [begin |-> 0, end |-> Len(text_)],
         id |-> Get(result, "curie", EmptyStr),
         label |-> Get(result, "label", EmptyStr),
         biolink_type |-> IF Len(biolink_types) > 0 THEN biolink_types[1]
                          ELSE S_biolink_NamedThing,
         score |-> Get(result, "score", EmptyStr),
         props |-> [clique_identifier_count |->
                       Get(result, "clique_identifier_count", EmptyStr)]]

\* NameResNEREngine.annotate, given the response to its request.
NameResAnnotate(text_, props, limit, response) ==
    IF response.exc \/ ~response.ok
    THEN [raised |-> TRUE]
    ELSE [raised |-> FALSE,
          value |-> [i \in 1..Len(response.json) |->
                        NameResAnnotation(text_, response.json[i])]]

\* The bl_type of the SAPBERT request with the test for '' dropped: an empty
\* hint becomes "biolink:".
SapbertBiolinkType_PrefixEmpty(props) ==
    LET biolink_type == Get(props, "biolink_type", EmptyStr)
    IN  IF ~StartsWith(biolink_type, S_biolink_prefix)
        THEN S_biolink_prefix \o biolink_type
        ELSE biolink_type

\* SAPBERTNEREngine.annotate: SAPBERT-Qdrant requires Biolink types that
\* start with 'biolink:'; an empty hint stays empty.
SapbertBiolinkType(props) ==
    LET biolink_type == Get(props, "biolink_type", EmptyStr)
    IN  IF biolink_type # EmptyStr /\ ~StartsWith(biolink_type, S_biolink_prefix)
        THEN S_biolink_prefix \o biolink_type
        ELSE biolink_type

\* SAPBERTNEREngine.annotate: the JSON body of the POST (limit is not used).
SapbertRequest(text_, props, limit) ==
    [text |-> text_, model_name |-> SAPBERT_MODEL_NAME, count |-> SAPBERT_COUNT,
     args |-> [bl_type |-> SapbertBiolinkType(props)]]

\* SAPBERTNEREngine.annotate: one result of the response as an annotation.
SapbertAnnotation(text_, result) ==
    [text |-> text_,
     span |-> [begin |-> 0, end |-> Len(text_)],
     id |-> Get(result, "curie", EmptyStr),
     label |-> Get(result, "name", EmptyStr),
     biolink_type |-> EmptyStr,
     score |-> Get(result, "score", EmptyStr)]

\* SAPBERTNEREngine.annotate, given the response to its request.
SapbertAnnotate(text_, props, limit, response) ==
    IF response.exc \/ ~response.ok
    THEN [raised |-> TRUE]
    ELSE [raised |-> FALSE,
          value |-> [i \in 1..Len(response.json) |->
                        SapbertAnnotation(text_, response.json[i])]]

\* The four calls of a row, in the names the output columns give them.
Variants == {"nameres", "nameres_no_type", "sapbert", "sapbert_no_type"}

EngineOf(v) == IF v \in {"nameres", "nameres_no_type"} THEN "nameres" ELSE "sapbert"

\* The props dict the loop passes for a variant.
PropsOf(v, type_) ==
    IF v \in {"nameres", "sapbert"} THEN [biolink_type |-> type_] ELSE NoRow

\* The type hint that the request of an engine carries.
HintSent(engine, props, limit) ==
    IF engine = "nameres"
    THEN NameResRequest(EmptyStr, props, limit).biolink_type
    ELSE SapbertRequest(EmptyStr, props, limit).args.bl_type

Annotate(engine, text_, props, limit, response) ==
    IF engine = "nameres"
    THEN NameResAnnotate(text_, props, limit, response)
    ELSE SapbertAnnotate(text_, props, limit, response)

\* nameres_results = []; try: nameres_results = annotate(...) except Exception
ResultsOrEmpty(ann) == IF ann.raised THEN << >> ELSE ann.value

-----------------------------------------------------------------------------
(* The environment: what the remote services answer. *)

\* Results of the NameRes /lookup endpoint.
NR_kidney ==
    [curie |-> S_UBERON_0002113, label |-> S_Kidney,
     types |-> <<S_biolink_AnatomicalEntity, S_biolink_NamedThing>>,
     score |-> S_score_09, clique_identifier_count |-> <<"3">>]
NR_lowercase_id ==
    [curie |-> S_uberon_0002113, label |-> S_KIDNEY, types |-> << >>,
     score |-> S_score_05]

\* Results of the SAPBERT /annotate/ endpoint.
SB_kidney == [curie |-> S_UBERON_0002113, name |-> S_Kidney, score |-> S_score_05]
SB_lowercase_id == [curie |-> S_uberon_0002113, name |-> S_KIDNEY, score |-> S_score_09]

\* Results that lack a field: a SAPBERT hit without curie, one without name.
SB_no_curie == [name |-> S_KIDNEY, score |-> S_score_09]
SB_no_name == [curie |-> S_uberon_0002113, score |-> S_score_09]

\* A list of n results r.
Repeat(r, n) == [i \in 1..n |-> r]

\* The result lists a service may have to offer: none; for NameRes the one
\* right result, and a list with the right result in the eleventh place; for
\* SAPBERT a list of eleven with a result without curie in the first place,
\* one without name in the second, then results that differ from the right
\* one in the case of identifier and name only, and the right result in the
\* last place.
ResultLists(engine) ==
    IF engine = "nameres"
    THEN {<< >>, <<NR_kidney>>, Repeat(NR_lowercase_id, 10) \o <<NR_kidney>>}
    ELSE {<< >>,
          <<SB_no_curie, SB_no_name>> \o Repeat(SB_lowercase_id, 8) \o <<SB_kidney>>}

\* The number of results the request of an engine asks the service for:
\* NameRes is sent the limit, SAPBERT is sent SAPBERT_COUNT whatever the
\* limit is.
CountAsked(engine, limit) ==
    IF engine = "nameres"
    THEN NameResRequest(EmptyStr, NoRow, limit).limit
    ELSE SapbertRequest(EmptyStr, NoRow, limit).count

\* The result lists a service answers with: it sends no more results than
\* the request asks for.  Both tools pass the limit 10.
JsonResults(engine) ==
    {r \in ResultLists(engine) : Len(r) <= CountAsked(engine, RESULTS_TO_DOWNLOAD)}

\* Every outcome of one HTTP call: it raises, it answers with a non-success
\* status, or it answers with a result list.
Responses(engine) ==
    {[exc |-> TRUE, ok |-> FALSE, json |-> << >>],
     [exc |-> FALSE, ok |-> FALSE, json |-> << >>]}
    \cup {[exc |-> FALSE, ok |-> TRUE, json |-> j] : j \in JsonResults(engine)}

\* The values of a type column.
TypeValues == {S_NA_padded, S_biolink_NamedThing, S_Disease}

\* The type values that mean 'no type'.
NoTypeValues ==
    {S_na, S_none, S_entity, S_biolink_entity, S_namedthing, S_biolink_namedthing}

\* if text_type.strip().lower() in {...}: text_type = '', with the mutation
\* "compares without strip() and lower()".
NormalizeType_Verbatim(type_) ==
    IF type_ \in NoTypeValues THEN EmptyStr ELSE type_

\* if text_type.strip().lower() in {'na', 'none', 'entity', 'biolink:entity',
\* 'namedthing', 'biolink:namedthing'}: text_type = ''
NormalizeType(type_) ==
    IF Lower(Strip(type_)) \in NoTypeValues THEN EmptyStr ELSE type_

-----------------------------------------------------------------------------
(* benchmark/google_sheet_benchmarks.py and benchmark/model/benchmark.py *)

\* The columns of the sheet whose lower-cased name ends in ' notes', with the
\* name without its last six characters.
NotesColumns == {"Curator notes"}
NoteField(key) == IF key = "Curator notes" THEN "Curator" ELSE key

\* A row of the sheet as csv.DictReader gives it.
SheetRow(q, t, i, l, n) ==
    [query |-> q, source |-> IF q = EmptyStr THEN EmptyStr ELSE S_bench,
     type |-> t, correct_type |-> EmptyStr, correct_id |-> i,
     correct_label |-> l]
    @@ ("Curator notes" :> n)

\* The rows a sheet may hold: a blank line, a row without a query, a row
\* without a correct ID and label, two rows for 'kidney' with both, and two
\* rows for 'aspirin' (which no service answer holds) with the ID only and
\* with the label only.
SheetRows ==
    {SheetRow(EmptyStr, EmptyStr, EmptyStr, EmptyStr, EmptyStr),
     SheetRow(EmptyStr, S_Disease, S_UBERON_0002113, S_kidney, EmptyStr),
     SheetRow(S_kidney, S_Disease, EmptyStr, EmptyStr, S_check),
     SheetRow(S_kidney, S_NA_padded, S_UBERON_0002113, S_kidney, EmptyStr),
     SheetRow(S_kidney, S_Disease, S_UBERON_0002113, S_kidney, S_check),
     SheetRow(S_aspirin, S_biolink_NamedThing, S_CHEBI_15365, EmptyStr, EmptyStr),
     SheetRow(S_aspirin, S_Disease, EmptyStr, S_aspirin, EmptyStr)}

\* GoogleSheetBenchmarks.benchmarks: has_nonempty_value(d)
has_nonempty_value(d) == ~ \A k \in DOMAIN d : d[k] = EmptyStr

\* GoogleSheetBenchmarks.to_benchmark(row)
to_benchmark(r) ==
    [Query |-> Get(r, "query", EmptyStr),
     Source |-> Get(r, "source", EmptyStr),
     Type |-> Get(r, "type", EmptyStr),
     CorrectType |-> Get(r, "correct_type", EmptyStr),
     CorrectID |-> Get(r, "correct_id", EmptyStr),
     CorrectLabel |-> Get(r, "correct_label", EmptyStr),
     Notes |-> [f \in {NoteField(k) : k \in DOMAIN r \cap NotesColumns} |->
                  r[CHOOSE k \in DOMAIN r \cap NotesColumns : NoteField(k) = f]]]

\* GoogleSheetBenchmarks.benchmarks keeping the blank rows of the sheet.
Benchmarks_KeepBlank == {to_benchmark(r) : r \in SheetRows}

\* GoogleSheetBenchmarks.benchmarks: the Benchmark of every row of the sheet
\* that has a non-empty value.  (The list is read once, in order; the model
\* draws each element when the loop reaches it.)
Benchmarks == {to_benchmark(r) : r \in {s \in SheetRows : has_nonempty_value(s)}}

-----------------------------------------------------------------------------
(* benchmark/cli.py: benchmark() *)

StatFields == {"total_id_rank", "count_id_rank", "total_label_rank", "count_label_rank"}

\* The order of the four calls in the loop body of the benchmark tool.
BenchOrder == <<"nameres", "nameres_no_type", "sapbert", "sapbert_no_type">>

\* The position after a call with the mutation "the next block is left out".
After_SkipNext(order, v) ==
    LET i == CHOOSE k \in 1..Len(order) : order[k] = v
    IN  IF i + 1 >= Len(order) THEN "write" ELSE order[i + 2]

\* The position after the call of variant v, for an order of the calls.
After(order, v) ==
    LET i == CHOOSE k \in 1..Len(order) : order[k] = v
    IN  IF i = Len(order) THEN "write" ELSE order[i + 1]

\* The names of the output columns of a variant.
Columns ==
    [nameres |->
        [id_rank |-> "nameres_id_rank", label_rank |-> "nameres_label_rank", time_sec |-> "nameres_time_sec",
         id |-> "nameres_id", label |-> "nameres_label",
         type |-> "nameres_type", score |-> "nameres_score"],
     nameres_no_type |->
        [id_rank |-> "nameres_no_type_id_rank", label_rank |-> "nameres_no_type_label_rank", time_sec |-> "nameres_no_type_time_sec",
         id |-> "nameres_no_type_id", label |-> "nameres_no_type_label",
         type |-> "nameres_no_type_type", score |-> "nameres_no_type_score"],
     sapbert |->
        [id_rank |-> "sapbert_id_rank", label_rank |-> "sapbert_label_rank", time_sec |-> "sapbert_time_sec",
         id |-> "sapbert_id", label |-> "sapbert_label",
         type |-> "sapbert_type", score |-> "sapbert_score"],
     sapbert_no_type |->
        [id_rank |-> "sapbert_no_type_id_rank", label_rank |-> "sapbert_no_type_label_rank", time_sec |-> "sapbert_no_type_time_sec",
         id |-> "sapbert_no_type_id", label |-> "sapbert_no_type_label",
         type |-> "sapbert_no_type_type", score |-> "sapbert_no_type_score"]]

Col(v, what) == Columns[v][what]

\* f"{elapsed:.5f}": the elapsed time of a call is not modelled; the column
\* is set whatever the call did.
ElapsedStr == <<"t">>

\* d with d[k] = v (an assignment to a dict entry).
Put(d, k, v) == (k :> v) @@ d

\* The queried type of a row: the normalized type, '' under --skip-types.
QueriedType(type_, skip_types) ==
    IF skip_types THEN EmptyStr ELSE NormalizeType(type_)

\* The 'notes' column: ';'.join of "field: value" for the non-empty notes,
\* kept as the set of the pairs joined.
NotesOf(b) == {<<f, b.Notes[f]>> : f \in {g \in DOMAIN b.Notes : b.Notes[g] # EmptyStr}}

\* row = { 'query': ..., ... }: the result row as the loop starts it.
StartRow(b, type_) ==
    [query |-> b.Query, source |-> b.Source, provided_type |-> b.Type,
     queried_type |-> type_, correct_type |-> b.CorrectType,
     correct_id |-> b.CorrectID, correct_label |-> b.CorrectLabel,
     notes |-> NotesOf(b)]

\* The label of the comparison with the mutation "labels are compared as
\* they are".
LabelKey_CaseSensitive(s) == s

\* The key labels are compared by: .lower()
LabelKey(s) == Lower(s)

\* The identifiers of the results, and the identifier rank of the row.
IdRank(b, res) ==
    rank_str_in_list(b.CorrectID, [i \in 1..Len(res) |-> res[i].id])

\* The lower-cased labels of the results, and the label rank of the row.
LabelRank(b, res) ==
    rank_str_in_list(LabelKey(b.CorrectLabel),
                     [i \in 1..Len(res) |-> LabelKey(Get(res[i], "label", EmptyStr))])

\* if rank: stats[total] += rank; stats[count] += 1, for the counters of one
\* variant (s) and one of "id", "label", with the mutation "adds None as 0
\* and counts the row all the same".
AddRank_Always(s, total, count, rank) ==
    [s EXCEPT ![total] = @ + (IF Truthy(rank) THEN rank ELSE 0), ![count] = @ + 1]

\* The update of the counters with the mutation "the rank is not added to
\* the total".
AddRank_CountOnly(s, total, count, rank) ==
    IF Truthy(rank) THEN [s EXCEPT ![count] = @ + 1] ELSE s

\* if rank: stats[total] += rank; stats[count] += 1
AddRank(s, total, count, rank) ==
    IF Truthy(rank)
    THEN [s EXCEPT ![total] = @ + rank, ![count] = @ + 1]
    ELSE s

\* stats = defaultdict(int): every counter reads 0 until it is added to.
NoStats == [v \in Variants |-> [f \in StatFields |-> 0]]

\* The rows of the statistics print-out: a section and a line of it.
Sections == {"ranked_id", "ranked_label", "average_id", "average_label"}

\* The sixteen lines the benchmark tool prints after the loop.
SummaryLines(s, n) ==
    [sec \in Sections |->
       CASE sec = "ranked_id" ->
              [nameres |-> divide_to_str(s["nameres"]["count_id_rank"], n),
               nameres_no_type |-> divide_to_str(s["nameres_no_type"]["count_id_rank"], n),
               sapbert |-> divide_to_str(s["sapbert"]["count_id_rank"], n),
               sapbert_no_type |-> divide_to_str(s["sapbert_no_type"]["count_id_rank"], n)]
         [] sec = "ranked_label" ->
              [nameres |-> divide_to_str(s["nameres"]["count_label_rank"], n),
               nameres_no_type |-> divide_to_str(s["nameres_no_type"]["count_label_rank"], n),
               sapbert |-> divide_to_str(s["sapbert"]["count_label_rank"], n),
               sapbert_no_type |-> divide_to_str(s["sapbert_no_type"]["count_label_rank"], n)]
         [] sec = "average_id" ->
              [nameres |-> divide_to_str(s["nameres"]["total_id_rank"],
                                         s["nameres"]["count_id_rank"]),
               nameres_no_type |-> divide_to_str(s["nameres_no_type"]["total_id_rank"],
                                                 s["nameres_no_type"]["count_id_rank"]),
               sapbert |-> divide_to_str(s["nameres"]["total_id_rank"],
                                         s["nameres"]["count_id_rank"]),
               sapbert_no_type |-> divide_to_str(s["nameres_no_type"]["total_id_rank"],
                                                 s["nameres_no_type"]["count_id_rank"])]
         [] sec = "average_label" ->
              [nameres |-> divide_to_str(s["nameres"]["total_label_rank"],
                                         s["nameres"]["count_label_rank"]),
               nameres_no_type |-> divide_to_str(s["nameres_no_type"]["total_label_rank"],
                                                 s["nameres_no_type"]["count_label_rank"]),
               sapbert |-> divide_to_str(s["nameres"]["total_label_rank"],
                                         s["nameres"]["count_label_rank"]),
               sapbert_no_type |-> divide_to_str(s["nameres_no_type"]["total_label_rank"],
                                                 s["nameres_no_type"]["count_label_rank"])]]

\* What a run never changes once it has started.
fixed == <<tool, opts, continue_file, fieldnames, hargs>>

\* The benchmark tool starts: the sheet is loaded, the header is written and
\* the statistics are empty.
BenchStart ==
    /\ tool = "benchmark" /\ pc = "start"
    /\ \E n \in 0..MaxRows : nBench' = n
    /\ stats' = NoStats
    /\ pc' = "loop"
    /\ UNCHANGED <<fixed, hres, idx, benchm, text, text_type, row, results,
                   calls, out, written, sleeps, printed, result_cache>>

\* if benchm.Query == '': continue, and
\* if benchm.CorrectID == '' and benchm.CorrectLabel == '': continue
BenchSkips(b) ==
    b.Query = EmptyStr \/ (b.CorrectID = EmptyStr /\ b.CorrectLabel = EmptyStr)

\* for benchm in benchmarks: the loop takes the next benchmark.  A benchmark
\* without a query, or with neither a correct ID nor a correct label, is
\* logged and skipped (continue); otherwise the type is normalized and the
\* result row is started.
BenchTakeRow(b) ==
    /\ tool = "benchmark" /\ pc = "loop" /\ idx < nBench
    /\ idx' = idx + 1
    /\ benchm' = b
    /\ written' = NoRow
    /\ IF BenchSkips(b)
       THEN /\ pc' = "loop"
            /\ UNCHANGED <<text, text_type, row, results, calls>>
       ELSE /\ text' = b.Query
            /\ text_type' = QueriedType(b.Type, opts.skip_types)
            /\ row' = StartRow(b, QueriedType(b.Type, opts.skip_types))
            /\ results' = << >> /\ calls' = << >>
            /\ pc' = BenchOrder[1]
    /\ UNCHANGED <<fixed, hres, nBench, stats, out, sleeps, printed, result_cache>>

\* One of the four blocks of the loop body: the annotate call of variant v
\* (an exception is logged and leaves the results empty), the time column,
\* the two ranks and the counters of the variant.
BenchAnnotate(v, response) ==
    /\ tool = "benchmark" /\ pc = v
    /\ LET props == PropsOf(v, text_type)
           ann == Annotate(EngineOf(v), text, props, RESULTS_TO_DOWNLOAD, response)
           res == ResultsOrEmpty(ann)
           id_rank == IdRank(benchm, res)
           label_rank == LabelRank(benchm, res)
       IN  /\ results' = res
           /\ calls' = Append(calls,
                  [variant |-> v, engine |-> EngineOf(v),
                   hint |-> HintSent(EngineOf(v), props, RESULTS_TO_DOWNLOAD),
                   raised |-> ann.raised])
           /\ row' = Put(Put(Put(row, Col(v, "time_sec"), ElapsedStr),
                             Col(v, "id_rank"), id_rank),
                         Col(v, "label_rank"), label_rank)
           /\ stats' = [stats EXCEPT ![v] =
                           AddRank(AddRank(@, "total_id_rank", "count_id_rank", id_rank),
                                   "total_label_rank", "count_label_rank", label_rank)]
    /\ pc' = After(BenchOrder, v)
    /\ UNCHANGED <<fixed, hres, nBench, idx, benchm, text, text_type, out,
                   written, sleeps, printed, result_cache>>

\* The write of the row with the mutation "writes the row twice".
BenchWriteRow_Twice ==
    /\ tool = "benchmark" /\ pc = "write"
    /\ out' = Append(Append(out, idx), idx)
    /\ written' = row
    /\ pc' = "sleep"
    /\ UNCHANGED <<fixed, hres, nBench, idx, benchm, text, text_type, row,
                   results, stats, calls, sleeps, printed, result_cache>>

\* csv_writer.writerow(row)
BenchWriteRow ==
    /\ tool = "benchmark" /\ pc = "write"
    /\ out' = Append(out, idx)
    /\ written' = row
    /\ pc' = "sleep"
    /\ UNCHANGED <<fixed, hres, nBench, idx, benchm, text, text_type, row,
                   results, stats, calls, sleeps, printed, result_cache>>

\* The end of the loop body with the mutation "does not sleep".
BenchSleep_None ==
    /\ tool = "benchmark" /\ pc = "sleep"
    /\ sleeps' = sleeps
    /\ written' = NoRow
    /\ benchm' = NoRow /\ text' = EmptyStr /\ text_type' = EmptyStr
    /\ row' = NoRow /\ results' = << >> /\ calls' = << >>
    /\ pc' = "loop"
    /\ UNCHANGED <<fixed, hres, nBench, idx, stats, out, printed,
                   result_cache>>

\* time.sleep(SLEEP_BETWEEN_ROWS), the last statement of the loop body.  The
\* locals of the iteration are dead from here on.
BenchSleep ==
    /\ tool = "benchmark" /\ pc = "sleep"
    /\ sleeps' = sleeps + 1
    /\ written' = NoRow
    /\ benchm' = NoRow /\ text' = EmptyStr /\ text_type' = EmptyStr
    /\ row' = NoRow /\ results' = << >> /\ calls' = << >>
    /\ pc' = "loop"
    /\ UNCHANGED <<fixed, hres, nBench, idx, stats, out, printed,
                   result_cache>>

\* After the loop: the statistics are printed.  A helper that raises ends
\* the program there.
BenchSummary ==
    /\ tool = "benchmark" /\ pc = "loop" /\ idx = nBench
    /\ LET lines == SummaryLines(stats, nBench)
       IN  IF \E sec \in Sections : \E v \in Variants : lines[sec][v].raised # ""
           THEN pc' = "crashed" /\ printed' = NoRow
           ELSE pc' = "done" /\ printed' = lines
    /\ written' = NoRow
    /\ UNCHANGED <<fixed, hres, nBench, idx, benchm, text, text_type, row,
                   results, stats, calls, out, sleeps, result_cache>>

-----------------------------------------------------------------------------
(* Runs of the two helper methods on their own. *)

\* The strings of the lists that rank_str_in_list is tried on.
Items == {S_kidney, S_Kidney, S_aspirin}

\* Every list over S of at most n items.
SeqsUpTo(S, n) == UNION {[1..k -> S] : k \in 0..n}

HelperArgs ==
    {[fn |-> "rank_str_in_list", query |-> q, items |-> s] :
        q \in Items, s \in SeqsUpTo(Items, MaxItems)}
    \cup {[fn |-> "divide_to_str", n |-> n, d |-> d] : n \in 0..MaxCount, d \in 0..MaxCount}

HelperRank ==
    /\ tool = "helpers" /\ pc = "start" /\ hargs.fn = "rank_str_in_list"
    /\ hres' = rank_str_in_list(hargs.query, hargs.items)
    /\ pc' = "done"
    /\ UNCHANGED <<fixed, nBench, idx, benchm, text, text_type, row, results,
                   stats, calls, out, written, sleeps, printed, result_cache>>

HelperDivide ==
    /\ tool = "helpers" /\ pc = "start" /\ hargs.fn = "divide_to_str"
    /\ hres' = divide_to_str(hargs.n, hargs.d)
    /\ pc' = "done"
    /\ UNCHANGED <<fixed, nBench, idx, benchm, text, text_type, row, results,
                   stats, calls, out, written, sleeps, printed, result_cache>>

-----------------------------------------------------------------------------
(* comparator/cli.py: comparator() *)

\* llm_type_mappings, as the pairs <<key, value>> of the dict literal.
llm_type_mappings ==
    {
       <<<<"A", "n", "a", "t", "o", "m", "i", "c", "a", "l", " ", "E", "n", "t", "i", "t", "y">>,
         <<"A", "n", "a", "t", "o", "m", "i", "c", "a", "l", "E", "n", "t", "i", "t", "y">>>>,
       <<<<"a", "n", "a", "t", "o", "m", "i", "c", "a", "l", " ", "e", "n", "t", "i", "t", "y">>,
         <<"A", "n", "a", "t", "o", "m", "i", "c", "a", "l", "E", "n", "t", "i", "t", "y">>>>,
       <<<<"A", "n", "a", "t", "o", "m", "i", "c", "a", "l", " ", "E", "n", "t", "i", "t", "y", "/", "B", "i", "o", "l", "o", "g", "i", "c", "a", "l", " ", "P", "r", "o", "c", "e", "s", "s">>,
         <<"A", "n", "a", "t", "o", "m", "i", "c", "a", "l", "E", "n", "t", "i", "t", "y">>>>,
       <<<<"A", "n", "a", "t", "o", "m", "i", "c", "a", "l", " ", "e", "n", "t", "i", "t", "y">>,
         <<"A", "n", "a", "t", "o", "m", "i", "c", "a", "l", "E", "n", "t", "i", "t", "y">>>>,
       <<<<"B", "i", "o", "l", "o", "g", "i", "c", "a", "l", " ", "P", "r", "o", "c", "e", "s", "s">>,
         <<"B", "i", "o", "l", "o", "g", "i", "c", "a", "l", "P", "r", "o", "c", "e", "s", "s">>>>,
       <<<<"B", "i", "o", "l", "o", "g", "i", "c", "a", "l", " ", "e", "n", "t", "i", "t", "y">>,
         <<"B", "i", "o", "l", "o", "g", "i", "c", "a", "l", "E", "n", "t", "i", "t", "y">>>>,
       <<<<"B", "i", "o", "l", "o", "g", "i", "c", "a", "l", " ", "p", "r", "o", "c", "e", "s", "s">>,
         <<"B", "i", "o", "l", "o", "g", "i", "c", "a", "l", "P", "r", "o", "c", "e", "s", "s">>>>,
       <<<<"b", "i", "o", "l", "o", "g", "i", "c", "a", "l", " ", "p", "r", "o", "c", "e", "s", "s">>,
         <<"B", "i", "o", "l", "o", "g", "i", "c", "a", "l", "P", "r", "o", "c", "e", "s", "s">>>>,
       <<<<"C", "e", "l", "l">>,
         <<"C", "e", "l", "l">>>>,
       <<<<"c", "e", "l", "l">>,
         <<"C", "e", "l", "l">>>>,
       <<<<"C", "e", "l", "l", " ", "l", "i", "n", "e">>,
         <<"C", "e", "l", "l", "L", "i", "n", "e">>>>,
       <<<<"C", "h", "e", "m", "i", "c", "a", "l">>,
         <<"C", "h", "e", "m", "i", "c", "a", "l", "E", "n", "t", "i", "t", "y">>>>,
       <<<<"c", "h", "e", "m", "i", "c", "a", "l">>,
         <<"C", "h", "e", "m", "i", "c", "a", "l", "E", "n", "t", "i", "t", "y">>>>,
       <<<<"D", "i", "s", "e", "a", "s", "e">>,
         <<"D", "i", "s", "e", "a", "s", "e">>>>,
       <<<<"d", "i", "s", "e", "a", "s", "e">>,
         <<"D", "i", "s", "e", "a", "s", "e">>>>,
       <<<<"D", "i", "s", "e", "a", "s", "e", "/", "P", "h", "e", "n", "o", "t", "y", "p", "e">>,
         <<"D", "i", "s", "e", "a", "s", "e", "O", "r", "P", "h", "e", "n", "o", "t", "y", "p", "i", "c", "F", "e", "a", "t", "u", "r", "e">>>>,
       <<<<"G", "e", "n", "e">>,
         <<"G", "e", "n", "e">>>>,
       <<<<"g", "e", "n", "e">>,
         <<"G", "e", "n", "e">>>>,
       <<<<"G", "e", "n", "e", "/", "P", "r", "o", "t", "e", "i", "n">>,
         <<"G", "e", "n", "e", "O", "r", "G", "e", "n", "e", "P", "r", "o", "d", "u", "c", "t">>>>,
       <<<<"P", "r", "o", "t", "e", "i", "n", " ", "a", "n", "d", " ", "G", "e", "n", "e">>,
         <<"G", "e", "n", "e", "O", "r", "G", "e", "n", "e", "P", "r", "o", "d", "u", "c", "t">>>>,
       <<<<"P", "r", "o", "t", "e", "i", "n">>,
         <<"P", "r", "o", "t", "e", "i", "n">>>>,
       <<<<"p", "r", "o", "t", "e", "i", "n">>,
         <<"P", "r", "o", "t", "e", "i", "n">>>>,
       <<<<"P", "h", "e", "n", "o", "t", "y", "p", "e">>,
         <<"P", "h", "e", "n", "o", "t", "y", "p", "i", "c", "F", "e", "a", "t", "u", "r", "e">>>>,
       <<<<"p", "h", "e", "n", "o", "t", "y", "p", "e">>,
         <<"P", "h", "e", "n", "o", "t", "y", "p", "i", "c", "F", "e", "a", "t", "u", "r", "e">>>>,
       <<<<"P", "h", "y", "s", "i", "o", "l", "o", "g", "i", "c", "a", "l", " ", "P", "r", "o", "c", "e", "s", "s">>,
         <<"P", "h", "y", "s", "i", "o", "l", "o", "g", "i", "c", "a", "l", "P", "r", "o", "c", "e", "s", "s">>>>,
       <<<<"P", "h", "y", "s", "i", "o", "l", "o", "g", "i", "c", "a", "l", " ", "p", "r", "o", "c", "e", "s", "s">>,
         <<"P", "h", "y", "s", "i", "o", "l", "o", "g", "i", "c", "a", "l", "P", "r", "o", "c", "e", "s", "s">>>>,
       <<<<"p", "h", "y", "s", "i", "o", "l", "o", "g", "i", "c", "a", "l", " ", "p", "r", "o", "c", "e", "s", "s">>,
         <<"P", "h", "y", "s", "i", "o", "l", "o", "g", "i", "c", "a", "l", "P", "r", "o", "c", "e", "s", "s">>>>,
       <<<<"c", "o", "h", "o", "r", "t">>,
         <<"C", "o", "h", "o", "r", "t">>>>,
       <<<<"d", "e", "v", "i", "c", "e">>,
         <<"D", "e", "v", "i", "c", "e">>>>,
       <<<<"p", "r", "o", "c", "e", "d", "u", "r", "e">>,
         <<"P", "r", "o", "c", "e", "d", "u", "r", "e">>>>,
       <<<<"B", "e", "h", "a", "v", "i", "o", "r", ",", " ", "D", "i", "s", "e", "a", "s", "e">>,
         <<"D", "i", "s", "e", "a", "s", "e", "O", "r", "P", "h", "e", "n", "o", "t", "y", "p", "i", "c", "F", "e", "a", "t", "u", "r", "e">>>>,
       <<<<"B", "i", "o", "l", "o", "g", "i", "c", "a", "l", " ", "p", "r", "o", "c", "e", "s", "s", ",", " ", "P", "h", "e", "n", "o", "t", "y", "p", "e", ",", " ", "D", "i", "s", "e", "a", "s", "e">>,
         <<"D", "i", "s", "e", "a", "s", "e", "O", "r", "P", "h", "e", "n", "o", "t", "y", "p", "i", "c", "F", "e", "a", "t", "u", "r", "e">>>>,
       <<<<"E", "v", "e", "n", "t", ",", " ", "S", "e", "q", "u", "e", "n", "c", "e", " ", "v", "a", "r", "i", "a", "n", "t">>,
         <<"S", "e", "q", "u", "e", "n", "c", "e", "V", "a", "r", "i", "a", "n", "t">>>>,
       <<<<"P", "h", "e", "n", "o", "t", "y", "p", "e", ",", " ", "B", "i", "o", "l", "o", "g", "i", "c", "a", "l", " ", "P", "r", "o", "c", "e", "s", "s", ",", " ", "P", "h", "e", "n", "o", "t", "y", "p", "e">>,
         <<"P", "h", "e", "n", "o", "t", "y", "p", "i", "c", "F", "e", "a", "t", "u", "r", "e">>>>,
       <<<<"P", "h", "e", "n", "o", "t", "y", "p", "e", ",", " ", "C", "h", "e", "m", "i", "c", "a", "l", ",", " ", "P", "r", "o", "t", "e", "i", "n", ",", " ", "P", "r", "o", "t", "e", "i", "n">>,
         <<"P", "h", "e", "n", "o", "t", "y", "p", "i", "c", "F", "e", "a", "t", "u", "r", "e">>>>,
       <<<<"P", "h", "e", "n", "o", "t", "y", "p", "e", ",", " ", "P", "r", "o", "t", "e", "i", "n", ",", " ", "B", "i", "o", "l", "o", "g", "i", "c", "a", "l", " ", "p", "r", "o", "c", "e", "s", "s", ",", " ", "P", "r", "o", "t", "e", "i", "n">>,
         <<"P", "h", "e", "n", "o", "t", "y", "p", "i", "c", "F", "e", "a", "t", "u", "r", "e">>>>,
       <<<<"P", "r", "o", "c", "e", "d", "u", "r", "e", ",", " ", "C", "h", "e", "m", "i", "c", "a", "l", ",", " ", "C", "h", "e", "m", "i", "c", "a", "l", ",", " ", "C", "h", "e", "m", "i", "c", "a", "l", ",", " ", "T", "r", "e", "a", "t", "m", "e", "n", "t">>,
         <<"C", "h", "e", "m", "i", "c", "a", "l", "O", "r", "D", "r", "u", "g", "O", "r", "T", "r", "e", "a", "t", "m", "e", "n", "t">>>>,
       <<<<"P", "r", "o", "c", "e", "d", "u", "r", "e", ",", " ", "D", "e", "v", "i", "c", "e", ",", " ", "O", "t", "h", "e", "r">>,
         <<"D", "e", "v", "i", "c", "e">>>>,
       <<<<"P", "r", "o", "t", "e", "i", "n", ",", " ", "C", "h", "e", "m", "i", "c", "a", "l", ",", " ", "B", "i", "o", "l", "o", "g", "i", "c", "a", "l", " ", "P", "r", "o", "c", "e", "s", "s">>,
         <<"C", "h", "e", "m", "i", "c", "a", "l", "O", "r", "D", "r", "u", "g", "O", "r", "T", "r", "e", "a", "t", "m", "e", "n", "t">>>>,
       <<<<"T", "r", "e", "a", "t", "m", "e", "n", "t", ",", " ", "E", "v", "e", "n", "t", ",", " ", "B", "e", "h", "a", "v", "i", "o", "r">>,
         <<"C", "h", "e", "m", "i", "c", "a", "l", "O", "r", "D", "r", "u", "g", "O", "r", "T", "r", "e", "a", "t", "m", "e", "n", "t">>>>,
       <<<<"B", "e", "h", "a", "v", "i", "o", "r">>,
         <<"B", "e", "h", "a", "v", "i", "o", "r">>>>,
       <<<<"b", "e", "h", "a", "v", "i", "o", "r">>,
         <<"B", "e", "h", "a", "v", "i", "o", "r">>>>,
       <<<<"B", "e", "h", "a", "v", "i", "o", "r", " ", "a", "n", "d", " ", "D", "i", "s", "e", "a", "s", "e">>,
         <<"B", "i", "o", "l", "o", "g", "i", "c", "a", "l", "E", "n", "t", "i", "t", "y">>>>,
       <<<<"B", "e", "h", "a", "v", "i", "o", "r", " ", "a", "n", "d", " ", "P", "h", "e", "n", "o", "t", "y", "p", "e">>,
         <<"B", "i", "o", "l", "o", "g", "i", "c", "a", "l", "E", "n", "t", "i", "t", "y">>>>,
       <<<<"B", "i", "o", "l", "o", "g", "i", "c", "a", "l", " ", "p", "r", "o", "c", "e", "s", "s", " ", "a", "n", "d", " ", "C", "h", "e", "m", "i", "c", "a", "l">>,
         <<"B", "i", "o", "l", "o", "g", "i", "c", "a", "l", "E", "n", "t", "i", "t", "y">>>>,
       <<<<"B", "i", "o", "l", "o", "g", "i", "c", "a", "l", " ", "p", "r", "o", "c", "e", "s", "s", "/", "D", "i", "s", "e", "a", "s", "e">>,
         <<"B", "i", "o", "l", "o", "g", "i", "c", "a", "l", "E", "n", "t", "i", "t", "y">>>>,
       <<<<"C", "h", "e", "m", "i", "c", "a", "l", " ", "a", "n", "d", " ", "P", "r", "o", "t", "e", "i", "n">>,
         <<"P", "r", "o", "t", "e", "i", "n">>>>,
       <<<<"C", "h", "e", "m", "i", "c", "a", "l", "/", "T", "r", "e", "a", "t", "m", "e", "n", "t">>,
         <<"C", "h", "e", "m", "i", "c", "a", "l", "O", "r", "D", "r", "u", "g", "O", "r", "T", "r", "e", "a", "t", "m", "e", "n", "t">>>>,
       <<<<"C", "o", "g", "n", "i", "t", "i", "v", "e", " ", "P", "r", "o", "c", "e", "s", "s">>,
         <<"B", "i", "o", "l", "o", "g", "i", "c", "a", "l", "P", "r", "o", "c", "e", "s", "s">>>>,
       <<<<"C", "o", "h", "o", "r", "t">>,
         <<"C", "o", "h", "o", "r", "t">>>>,
       <<<<"D", "e", "v", "i", "c", "e">>,
         <<"D", "e", "v", "i", "c", "e">>>>,
       <<<<"D", "e", "v", "i", "c", "e", " ", "a", "n", "d", " ", "P", "r", "o", "t", "e", "i", "n">>,
         <<"P", "r", "o", "t", "e", "i", "n">>>>,
       <<<<"D", "e", "v", "i", "c", "e", "/", "P", "r", "o", "c", "e", "d", "u", "r", "e">>,
         <<"P", "r", "o", "c", "e", "d", "u", "r", "e">>>>,
       <<<<"D", "i", "s", "e", "a", "s", "e", " ", "a", "n", "d", " ", "P", "h", "e", "n", "o", "t", "y", "p", "e">>,
         <<"D", "i", "s", "e", "a", "s", "e", "O", "r", "P", "h", "e", "n", "o", "t", "y", "p", "i", "c", "F", "e", "a", "t", "u", "r", "e">>>>,
       <<<<"D", "i", "s", "e", "a", "s", "e", " ", "a", "n", "d", " ", "P", "h", "y", "s", "i", "o", "l", "o", "g", "i", "c", "a", "l", " ", "P", "r", "o", "c", "e", "s", "s">>,
         <<"B", "i", "o", "l", "o", "g", "i", "c", "a", "l", "P", "r", "o", "c", "e", "s", "s">>>>,
       <<<<"D", "i", "s", "e", "a", "s", "e", "/", "B", "e", "h", "a", "v", "i", "o", "r">>,
         <<"B", "i", "o", "l", "o", "g", "i", "c", "a", "l", "E", "n", "t", "i", "t", "y">>>>,
       <<<<"E", "n", "z", "y", "m", "e">>,
         <<"P", "r", "o", "t", "e", "i", "n">>>>,
       <<<<"E", "v", "e", "n", "t">>,
         <<"E", "v", "e", "n", "t">>>>,
       <<<<"e", "v", "e", "n", "t">>,
         <<"E", "v", "e", "n", "t">>>>,
       <<<<"E", "v", "e", "n", "t", " ", "a", "n", "d", " ", "B", "e", "h", "a", "v", "i", "o", "r">>,
         <<"E", "v", "e", "n", "t">>>>,
       <<<<"F", "o", "o", "d">>,
         <<"C", "h", "e", "m", "i", "c", "a", "l", "E", "n", "t", "i", "t", "y">>>>,
       <<<<"F", "o", "o", "d", " ", "a", "n", "d", " ", "C", "h", "e", "m", "i", "c", "a", "l">>,
         <<"C", "h", "e", "m", "i", "c", "a", "l", "E", "n", "t", "i", "t", "y">>>>,
       <<<<"F", "o", "o", "d", "/", "B", "e", "h", "a", "v", "i", "o", "r">>,
         <<"C", "h", "e", "m", "i", "c", "a", "l", "E", "n", "t", "i", "t", "y">>>>,
       <<<<"P", "a", "t", "h", "w", "a", "y">>,
         <<"P", "a", "t", "h", "w", "a", "y">>>>,
       <<<<"P", "r", "o", "c", "e", "d", "u", "r", "e">>,
         <<"P", "r", "o", "c", "e", "d", "u", "r", "e">>>>,
       <<<<"T", "i", "m", "e">>,
         <<"E", "v", "e", "n", "t">>>>,
       <<<<"t", "r", "e", "a", "t", "m", "e", "n", "t">>,
         <<"T", "r", "e", "a", "t", "m", "e", "n", "t">>>>,
       <<<<"T", "r", "e", "a", "t", "m", "e", "n", "t">>,
         <<"T", "r", "e", "a", "t", "m", "e", "n", "t">>>>,
       <<<<"S", "e", "q", "u", "e", "n", "c", "e", " ", "V", "a", "r", "i", "a", "n", "t">>,
         <<"S", "e", "q", "u", "e", "n", "c", "e", "V", "a", "r", "i", "a", "n", "t">>>>,
       <<<<"S", "e", "q", "u", "e", "n", "c", "e", " ", "V", "a", "r", "i", "a", "n", "t", "/", "M", "u", "t", "a", "t", "i", "o", "n">>,
         <<"S", "e", "q", "u", "e", "n", "c", "e", "V", "a", "r", "i", "a", "n", "t">>>>,
       <<<<"M", "u", "t", "a", "t", "i", "o", "n">>,
         <<"S", "e", "q", "u", "e", "n", "c", "e", "V", "a", "r", "i", "a", "n", "t">>>>,
       <<<<"m", "u", "t", "a", "t", "i", "o", "n">>,
         <<"S", "e", "q", "u", "e", "n", "c", "e", "V", "a", "r", "i", "a", "n", "t">>>>,
       <<<<"S", "e", "q", "u", "e", "n", "c", "e", " ", "v", "a", "r", "i", "a", "n", "t">>,
         <<"S", "e", "q", "u", "e", "n", "c", "e", "V", "a", "r", "i", "a", "n", "t">>>>,
       <<<<"s", "e", "q", "u", "e", "n", "c", "e", " ", "v", "a", "r", "i", "a", "n", "t">>,
         <<"S", "e", "q", "u", "e", "n", "c", "e", "V", "a", "r", "i", "a", "n", "t">>>>,
       <<<<"M", "e", "a", "s", "u", "r", "e", "m", "e", "n", "t">>,
         <<"C", "l", "i", "n", "i", "c", "a", "l", "M", "e", "a", "s", "u", "r", "e", "m", "e", "n", "t">>>>,
       <<<<"O", "r", "g", "a", "n", "i", "s", "m">>,
         <<"O", "r", "g", "a", "n", "i", "s", "m", "T", "a", "x", "o", "n">>>>,
       <<<<"o", "r", "g", "a", "n", "i", "s", "m">>,
         <<"O", "r", "g", "a", "n", "i", "s", "m", "T", "a", "x", "o", "n">>>>,
       <<<<"O", "r", "g", "a", "n", "i", "z", "a", "t", "i", "o", "n">>,
         <<"A", "g", "e", "n", "t">>>>,
       <<<<"P", "h", "e", "n", "o", "m", "e", "n", "o", "n">>,
         <<"P", "h", "e", "n", "o", "m", "e", "n", "o", "n">>>>,
       <<<<"P", "r", "o", "c", "e", "d", "u", "r", "e", "/", "B", "e", "h", "a", "v", "i", "o", "r">>,
         <<"A", "c", "t", "i", "v", "i", "t", "y", "A", "n", "d", "B", "e", "h", "a", "v", "i", "o", "r">>>>,
       <<<<"m", "R", "N", "A">>,
         <<"G", "e", "n", "e", "P", "r", "o", "d", "u", "c", "t", "M", "i", "x", "i", "n">>>>,
       <<<<"p", "h", "e", "n", "o", "m", "e", "n", "o", "n">>,
         <<"P", "h", "e", "n", "o", "m", "e", "n", "o", "n">>>>,
       <<<<"o", "t", "h", "e", "r">>,
         <<>>>>,
       <<<<"O", "t", "h", "e", "r">>,
         <<>>>>,
       <<<<"O", "t", "h", "e", "r", "/", "D", "i", "s", "e", "a", "s", "e">>,
         <<"D", "i", "s", "e", "a", "s", "e">>>>,
       <<<<"L", "o", "c", "a", "t", "i", "o", "n">>,
         <<>>>>,
       <<<<"D", "e", "v", "i", "c", "e", " ", "a", "n", "d", " ", "C", "o", "h", "o", "r", "t">>,
         <<>>>>
    }

\* llm_type_mappings.get(text_type, '')
MapType(type_) ==
    IF \E p \in llm_type_mappings : p[1] = type_
    THEN (CHOOSE p \in llm_type_mappings : p[1] = type_)[2]
    ELSE EmptyStr

\* The --query and --biolink-type options (their defaults): the names of the
\* columns with the query text and with its type.
query == "query"
biolink_type == "biolink_type"

\* The columns that the comparator adds to those of the input file.
EngineColumns ==
    {Col(v, what) : v \in Variants, what \in {"id", "label", "type", "score", "time_sec"}}

\* header = list(reader.fieldnames) + the engine columns
Header(fields) == fields \cup EngineColumns

\* The order of the four calls in the loop body of the comparator tool.
CmpOrder == <<"nameres", "nameres_no_type", "sapbert_no_type", "sapbert">>

\* The values of the type column of an input file.
CmpTypeValues == TypeValues \cup {S_Drug}

\* The rows csv.DictReader gives for an input file with the columns fields.
InputRows(fields) ==
    {[c \in fields |-> IF c = query THEN q ELSE t] :
        q \in {S_aspirin, S_kidney}, t \in CmpTypeValues}

\* Rows of an earlier output, as csv.DictReader gives them for a file with
\* the columns cols: every value is a string, '' where nothing was filled in.
ContRow(cols, t, id, label) ==
    [c \in cols |->
        CASE c = query -> S_aspirin
          [] c = biolink_type -> t
          [] c = "nameres_id" -> id
          [] c = "nameres_label" -> label
          [] c \in {Col(v, "time_sec") : v \in Variants} -> ElapsedStr
          [] OTHER -> EmptyStr]

ContRows(cols) ==
    {ContRow(cols, S_Drug, S_CHEBI_15365, S_Aspirin),
     ContRow(cols, S_Disease, EmptyStr, EmptyStr)}

\* The column sets a continuation file may have: those of an output whose
\* input had both columns, had no type column, had no query column.
ContColumns ==
    {Header({query, biolink_type}), Header({query}), Header({biolink_type})}

\* The files --continue may name: none on disk, or a CSV of some columns
\* with at most MaxContRows rows.
ContinueFiles ==
    {[exists |-> FALSE, rows |-> << >>]}
    \cup {[exists |-> TRUE, rows |-> s] :
            s \in UNION {SeqsUpTo(ContRows(cols), MaxContRows) : cols \in ContColumns}}

\* The loop over the continuation file with the mutation "keeps the first
\* row of a query text".
RECURSIVE ReadCache_KeepFirst(_, _)
ReadCache_KeepFirst(rows, cache) ==
    IF rows = << >> THEN cache
    ELSE LET r == Head(rows)
         IN  IF query \notin DOMAIN r \/ r[query] \in DOMAIN cache
             THEN ReadCache_KeepFirst(Tail(rows), cache)
             ELSE ReadCache_KeepFirst(Tail(rows), Put(cache, r[query], r))

\* for row in continue_file_reader: if query not in row: continue;
\* result_cache[row[query]] = row
RECURSIVE ReadCache(_, _)
ReadCache(rows, cache) ==
    IF rows = << >> THEN cache
    ELSE LET r == Head(rows)
         IN  IF query \notin DOMAIN r
             THEN ReadCache(Tail(rows), cache)
             ELSE ReadCache(Tail(rows), Put(cache, r[query], r))

\* The test before the continuation file is read, with the mutation "does
\* not test that the file exists".
ReadsContinueFile_NoExistsTest(given, file) == given

\* if continue_filename and os.path.exists(click.format_filename(continue_filename))
ReadsContinueFile(given, file) == given /\ file.exists

\* result_cache = dict(); if continue_filename and os.path.exists(...): read it
BuildCache(given, file) ==
    IF ReadsContinueFile(given, file) THEN ReadCache(file.rows, NoRow) ELSE NoRow

\* csv.DictWriter.writerow raises ValueError for a dict with a key that is
\* not a column of the header (extrasaction='raise').
WriterowRaises(rowdict, fields) == ~ (DOMAIN rowdict \subseteq Header(fields))

\* The row that a cache hit writes, with the mutation "writes the input row
\* filled up from the cached one".
CacheHitRow_Merged(r, cache) == r @@ cache[r[query]]

\* csv_writer.writerow(result_cache[text])
CacheHitRow(r, cache) == cache[r[query]]

\* if len(results) > 0: the four result columns of the variant are set from
\* the first result; the time column is set in every case.
FillRow(r, v, res) ==
    LET filled ==
          IF Len(res) > 0
          THEN Put(Put(Put(Put(r, Col(v, "id"), res[1].id),
                           Col(v, "label"), res[1].label),
                       Col(v, "type"), res[1].biolink_type),
                   Col(v, "score"), res[1].score)
          ELSE r
    IN  Put(filled, Col(v, "time_sec"), ElapsedStr)

\* The comparator starts: the continuation file is read into the cache, if
\* the test for it says so, and the header is written.
CmpStart ==
    /\ tool = "comparator" /\ pc = "start"
    /\ IF ReadsContinueFile(opts.continue_given, continue_file) /\ ~continue_file.exists
       THEN \* open() of a file that is not there raises FileNotFoundError
            pc' = "crashed" /\ UNCHANGED result_cache
       ELSE /\ result_cache' = BuildCache(opts.continue_given, continue_file)
            /\ pc' = "loop"
    /\ UNCHANGED <<fixed, hres, nBench, idx, benchm, text, text_type, row,
                   results, stats, calls, out, written, sleeps, printed>>

\* for row in reader: the loop takes the next row of the input file.  A row
\* without the query column is logged and skipped; a row whose text is in
\* the cache is written from the cache (continue); a row without the type
\* column is logged and skipped; otherwise the type is normalized and mapped.
CmpTakeRow(r) ==
    /\ tool = "comparator" /\ pc = "loop" /\ idx < MaxRows
    /\ idx' = idx + 1
    /\ row' = r
    /\ results' = << >> /\ calls' = << >>
    /\ IF query \notin DOMAIN r
       THEN /\ pc' = "loop" /\ written' = NoRow
            /\ UNCHANGED <<text, text_type, out>>
       ELSE /\ text' = r[query]
            /\ IF r[query] \in DOMAIN result_cache
               THEN IF WriterowRaises(CacheHitRow(r, result_cache), fieldnames)
                    THEN /\ pc' = "crashed" /\ written' = NoRow
                         /\ UNCHANGED <<text_type, out>>
                    ELSE /\ written' = CacheHitRow(r, result_cache)
                         /\ out' = Append(out, idx + 1)
                         /\ pc' = "loop"
                         /\ UNCHANGED text_type
               ELSE /\ written' = NoRow /\ UNCHANGED out
                    /\ IF biolink_type \notin DOMAIN r
                       THEN pc' = "loop" /\ UNCHANGED text_type
                       ELSE /\ text_type' = MapType(NormalizeType(Get(r, biolink_type, EmptyStr)))
                            /\ pc' = CmpOrder[1]
    /\ UNCHANGED <<fixed, hres, nBench, benchm, stats, sleeps, printed, result_cache>>

\* One of the four blocks of the loop body: the annotate call of variant v
\* with limit=10 (an exception is logged and leaves the results empty) and
\* the columns of the variant.
CmpAnnotate(v, response) ==
    /\ tool = "comparator" /\ pc = v
    /\ LET props == PropsOf(v, text_type)
           ann == Annotate(EngineOf(v), text, props, 10, response)
           res == ResultsOrEmpty(ann)
       IN  /\ results' = res
           /\ calls' = Append(calls,
                  [variant |-> v, engine |-> EngineOf(v),
                   hint |-> HintSent(EngineOf(v), props, 10),
                   raised |-> ann.raised])
           /\ row' = FillRow(row, v, res)
    /\ pc' = After(CmpOrder, v)
    /\ UNCHANGED <<fixed, hres, nBench, idx, benchm, text, text_type, stats, out,
                   written, sleeps, printed, result_cache>>

\* The write of the row with the mutation "the row is put before the rows
\* written so far".
CmpWriteRow_Front ==
    /\ tool = "comparator" /\ pc = "write"
    /\ out' = <<idx>> \o out
    /\ written' = row
    /\ pc' = "sleep"
    /\ UNCHANGED <<fixed, hres, nBench, idx, benchm, text, text_type, row,
                   results, stats, calls, sleeps, printed, result_cache>>

\* csv_writer.writerow(row)
CmpWriteRow ==
    /\ tool = "comparator" /\ pc = "write"
    /\ out' = Append(out, idx)
    /\ written' = row
    /\ pc' = "sleep"
    /\ UNCHANGED <<fixed, hres, nBench, idx, benchm, text, text_type, row,
                   results, stats, calls, sleeps, printed, result_cache>>

\* time.sleep(SLEEP_BETWEEN_ROWS), the last statement of the loop body.  The
\* locals of the iteration are dead from here on.
CmpSleep ==
    /\ tool = "comparator" /\ pc = "sleep"
    /\ sleeps' = sleeps + 1
    /\ written' = NoRow
    /\ text' = EmptyStr /\ text_type' = EmptyStr /\ row' = NoRow
    /\ results' = << >> /\ calls' = << >>
    /\ pc' = "loop"
    /\ UNCHANGED <<fixed, hres, nBench, idx, benchm, stats, out, printed,
                   result_cache>>

\* The reader has no more rows: the program ends.
CmpEnd ==
    /\ tool = "comparator" /\ pc = "loop"
    /\ pc' = "done"
    /\ written' = NoRow
    /\ UNCHANGED <<fixed, hres, nBench, idx, benchm, text, text_type, row,
                   results, stats, calls, out, sleeps, printed, result_cache>>

-----------------------------------------------------------------------------
(* The runs. *)

\* What every run starts with: nothing read, written, called or printed.
Blank ==
    /\ pc = "start"
    /\ nBench = 0 /\ idx = 0
    /\ benchm = NoRow /\ text = EmptyStr /\ text_type = EmptyStr /\ row = NoRow
    /\ stats = NoStats /\ results = << >> /\ calls = << >> /\ out = << >> /\ written = NoRow
    /\ sleeps = 0 /\ printed = NoRow /\ hres = NoRow
    /\ result_cache = NoRow

InitHelpers ==
    /\ tool = "helpers" /\ Blank
    /\ hargs \in HelperArgs
    /\ opts = NoRow /\ continue_file = NoRow /\ fieldnames = {}

InitBenchmark ==
    /\ tool = "benchmark" /\ Blank
    /\ hargs = NoRow
    /\ opts \in [skip_types : BOOLEAN]
    /\ continue_file = NoRow /\ fieldnames = {}

InitComparator ==
    /\ tool = "comparator" /\ Blank
    /\ hargs = NoRow
    /\ opts \in [continue_given : BOOLEAN]
    /\ continue_file \in ContinueFiles
    /\ (~opts.continue_given => ~continue_file.exists)
    /\ fieldnames \in {{query, biolink_type}, {query}, {biolink_type}}

Init == InitHelpers \/ InitBenchmark \/ InitComparator

Next ==
    \/ HelperRank
    \/ HelperDivide
    \/ BenchStart
    \/ \E b \in Benchmarks : BenchTakeRow(b)
    \/ \E v \in Variants : \E response \in Responses(EngineOf(v)) : BenchAnnotate(v, response)
    \/ BenchWriteRow
    \/ BenchSleep
    \/ BenchSummary
    \/ CmpStart
    \/ \E r \in InputRows(fieldnames) : CmpTakeRow(r)
    \/ \E v \in Variants : \E response \in Responses(EngineOf(v)) : CmpAnnotate(v, response)
    \/ CmpWriteRow
    \/ CmpSleep
    \/ CmpEnd

Spec == Init /\ [][Next]_vars

-----------------------------------------------------------------------------
(* Properties. *)

\* Position r is the rank of the first of the positions 1..n that match:
\* it matches and none before it does; None when no position matches.
IsFirstMatch(r, n, Match(_)) ==
    IF \E i \in 1..n : Match(i)
    THEN r \in 1..n /\ Match(r) /\ \A j \in 1..(r - 1) : ~Match(j)
    ELSE r = None

\* The variant of the latest annotate call of the current row.
LastVariant == calls[Len(calls)].variant

\* A row of the loop is malformed for the benchmark tool: no query, or
\* neither a correct ID nor a correct label.
MalformedBenchmark(b) ==
    b.Query = EmptyStr \/ (b.CorrectID = EmptyStr /\ b.CorrectLabel = EmptyStr)

CacheHit ==
    /\ tool = "comparator" /\ pc # "start"
    /\ query \in DOMAIN row
    /\ row[query] \in DOMAIN result_cache

\* C2: comparator, continuation file supplied and existing: for an input row
\* whose query text is a key of the result cache, the row written is the
\* cached row, every column of it, and no annotate call is issued for the
\* input row: the loop goes from reading it straight to the next row.
C2_CachedRowVerbatim ==
    CacheHit =>
        /\ opts.continue_given /\ continue_file.exists
        /\ calls = << >>
        /\ pc \in {"loop", "done", "crashed"}
        /\ pc # "crashed" => (Len(out) > 0 /\ out[Len(out)] = idx)
        /\ DOMAIN written # {} => written = result_cache[row[query]]

\* A row for 'aspirin' has just been written from the cache, and its type
\* column is not that of the input row.
C2_Witness ==
    /\ CacheHit /\ pc = "loop"
    /\ row[query] = S_aspirin
    /\ DOMAIN written # {}
    /\ biolink_type \in DOMAIN row /\ biolink_type \in DOMAIN written
    /\ row[biolink_type] # written[biolink_type]
    /\ written["nameres_id"] = S_CHEBI_15365

\* C3: in both tools an annotate call that fails is not fatal and counts as
\* a call without results: in the benchmark tool both ranks of the variant
\* are None and no counter changes, in the comparator the result columns of
\* the variant are not filled; the loop goes on with the next call of the
\* row, and the row is written once the four calls are done, whether or not
\* some of them failed.
C3_FailureIsNoResults ==
    /\ [][(Len(calls') = Len(calls) + 1 /\ calls'[Len(calls')].raised) =>
            LET v == calls'[Len(calls')].variant
            IN  /\ results' = << >>
                /\ stats' = stats
                /\ Col(v, "time_sec") \in DOMAIN row'
                /\ tool = "benchmark" =>
                      /\ row'[Col(v, "id_rank")] = None
                      /\ row'[Col(v, "label_rank")] = None
                      /\ pc' = After(BenchOrder, v)
                /\ tool = "comparator" =>
                      /\ \A what \in {"id", "label", "type", "score"} :
                            Col(v, what) \notin DOMAIN row'
                      /\ pc' = After(CmpOrder, v)]_vars
    /\ [][pc = "write" =>
            /\ Len(calls) = 4
            /\ written' = row /\ out' = Append(out, idx) /\ pc' = "sleep"]_vars
    /\ [][pc = "sleep" => pc' = "loop" /\ idx' = idx]_vars
    /\ [](pc # "crashed" \/ CacheHit)

\* The first call of a benchmark row failed, the second one found the ID at
\* rank 1, and the row has been written.
C3_Witness ==
    /\ tool = "benchmark" /\ pc = "sleep"
    /\ Len(calls) = 4 /\ calls[1].raised /\ ~calls[2].raised
    /\ written = row
    /\ row["nameres_id_rank"] = None /\ row["nameres_no_type_id_rank"] = 1
    /\ idx = 1 /\ nBench = 2

\* The type value means 'no type': trimmed and lower-cased it is one of the
\* six values.
MeansNoType(type_) == Lower(Strip(type_)) \in NoTypeValues

\* C4: in both tools, for an input row whose type, trimmed and lower-cased,
\* is one of na, none, entity, biolink:entity, namedthing,
\* biolink:namedthing, every annotate call of the row carries the empty type
\* hint, to either service (and queried_type of the benchmark row is empty).
C4_NoTypeIsEmptyHint ==
    /\ (tool = "benchmark" /\ DOMAIN benchm # {} /\ MeansNoType(benchm.Type)) =>
          /\ \A i \in 1..Len(calls) : calls[i].hint = EmptyStr
          /\ DOMAIN row # {} => row["queried_type"] = EmptyStr
    /\ (tool = "comparator" /\ biolink_type \in DOMAIN row
            /\ MeansNoType(row[biolink_type])) =>
          \A i \in 1..Len(calls) : calls[i].hint = EmptyStr

\* The four calls of a benchmark row of type ' NA ' are done, types are not
\* skipped, and a call to each service carried the row's type hint.
C4_Witness ==
    /\ tool = "benchmark" /\ ~opts.skip_types
    /\ DOMAIN benchm # {} /\ benchm.Type = S_NA_padded
    /\ Len(calls) = 4
    /\ {calls[i].engine : i \in 1..4} = {"nameres", "sapbert"}

\* C5: benchmark tool: the label rank is the first position whose result
\* label equals the expected label ignoring letter case; the identifier rank
\* is the first position whose result identifier equals the expected
\* identifier exactly.  So 'kidney' with UBERON:0002113 and 'kidney' expected,
\* against the single result (UBERON:0002113, 'Kidney'), has both ranks 1.
C5_LabelIgnoresCaseIdExact ==
    (tool = "benchmark" /\ Len(calls) > 0) =>
        LET v == LastVariant
            SameLabel(i) == Lower(results[i].label) = Lower(benchm.CorrectLabel)
            SameId(i) == results[i].id = benchm.CorrectID
        IN  /\ IsFirstMatch(row[Col(v, "label_rank")], Len(results), SameLabel)
            /\ IsFirstMatch(row[Col(v, "id_rank")], Len(results), SameId)
            /\ (/\ benchm.Query = S_kidney /\ benchm.CorrectID = S_UBERON_0002113
                /\ benchm.CorrectLabel = S_kidney
                /\ Len(results) = 1 /\ results[1].id = S_UBERON_0002113
                /\ results[1].label = S_Kidney) =>
                  (row[Col(v, "id_rank")] = 1 /\ row[Col(v, "label_rank")] = 1)

\* SAPBERT answered with eleven results: the third differs from the
\* expected answer in the case of its identifier and of its label, the right
\* identifier comes last: the identifier rank is 11, the label rank 1.
C5_Witness ==
    /\ tool = "benchmark" /\ Len(calls) > 0
    /\ benchm.CorrectID = S_UBERON_0002113 /\ benchm.CorrectLabel = S_kidney
    /\ Len(results) = 11
    /\ results[3].id = S_uberon_0002113 /\ results[3].label = S_KIDNEY
    /\ results[11].id = S_UBERON_0002113
    /\ row[Col(LastVariant, "id_rank")] = 11
    /\ row[Col(LastVariant, "label_rank")] = 1

\* C6: divide_to_str(n, d) with d = 0 is the display 'NA (n/0)' and raises
\* nothing; so the summary of the benchmark tool is printed in full whatever
\* the statistics are, also with no benchmark loaded and no rank found.
C6_ZeroDenominatorIsNA ==
    /\ (tool = "helpers" /\ pc = "done" /\ hargs.fn = "divide_to_str" /\ hargs.d = 0) =>
          /\ hres.raised = "" /\ hres.na
          /\ hres.n = hargs.n /\ hres.d = 0
    /\ tool = "benchmark" =>
          /\ pc # "crashed"
          /\ pc = "done" =>
                /\ DOMAIN printed = Sections
                /\ \A sec \in Sections : \A v \in Variants :
                      /\ printed[sec][v].raised = ""
                      /\ printed[sec][v].na <=> printed[sec][v].d = 0

\* A run that loaded no benchmark has printed its summary: every line is NA.
C6_Witness ==
    /\ tool = "benchmark" /\ pc = "done" /\ nBench = 0
    /\ \A sec \in Sections : \A v \in Variants :
          printed[sec][v].na /\ printed[sec][v].n = 0 /\ printed[sec][v].d = 0

\* The step takes the next input row.
TakesRow == idx' = idx + 1

\* C7: in both tools a malformed input row is skipped and is not fatal: for
\* a benchmark row with an empty query, or with neither expected identifier
\* nor expected label, and for a comparator row lacking the query column or
\* the type column, no annotate call is issued, no output row is written, no
\* statistic changes and the loop continues with the next row.
C7_MalformedRowIsSkipped ==
    [][(/\ TakesRow
        /\ \/ tool = "benchmark" /\ MalformedBenchmark(benchm')
           \/ /\ tool = "comparator"
              /\ (query \notin DOMAIN row' \/ biolink_type \notin DOMAIN row')) =>
            /\ calls' = << >>
            /\ out' = out /\ written' = NoRow
            /\ stats' = stats
            /\ pc' = "loop"]_vars

\* C8: benchmark tool summary: for each of the four variants, for identifier
\* and label, the printed average rank is that variant's total rank over that
\* variant's count of rows with a found rank, and the printed fraction is
\* that variant's found count over the number of benchmarks.
C8_SummaryOfSameVariant ==
    (tool = "benchmark" /\ pc = "done") =>
        \A v \in Variants :
            /\ printed["ranked_id"][v] = divide_to_str(stats[v]["count_id_rank"], nBench)
            /\ printed["ranked_label"][v] = divide_to_str(stats[v]["count_label_rank"], nBench)
            /\ printed["average_id"][v] =
                  divide_to_str(stats[v]["total_id_rank"], stats[v]["count_id_rank"])
            /\ printed["average_label"][v] =
                  divide_to_str(stats[v]["total_label_rank"], stats[v]["count_label_rank"])

\* C9 as claimed: when the run of the benchmark tool ends, the number of rows
\* written equals the number of benchmarks loaded.
C9_OneOutputRowPerBenchmark ==
    (tool = "benchmark" /\ pc = "done") => Len(out) = nBench

\* C9, amended: a benchmark produces at most one output row: none when it is
\* skipped (empty query, or neither expected identifier nor expected label),
\* exactly one otherwise, after its four calls; so the rows written are as
\* many as the benchmarks loaded less those skipped.  Each benchmark changes
\* each counter at most once: a counter changes only in the block of its
\* variant, which a row passes once, and a count grows by one.
C9_OneOutputRowPerLiveBenchmark ==
    /\ [](tool = "benchmark" =>
            /\ \A i \in 1..Len(out) : out[i] \in 1..idx
            /\ \A i \in 1..Len(out) : \A j \in 1..Len(out) : i < j => out[i] < out[j]
            /\ pc = "done" => idx = nBench
            /\ pc \in Variants \cup {"write"} =>
                  (idx >= 1 /\ \A i \in 1..Len(out) : out[i] < idx)
            /\ pc = "sleep" => (Len(out) > 0 /\ out[Len(out)] = idx))
    /\ [][tool = "benchmark" =>
            /\ TakesRow =>
                  /\ out' = out
                  /\ pc' = IF MalformedBenchmark(benchm') THEN "loop" ELSE BenchOrder[1]
            /\ pc \in Variants => (pc' = After(BenchOrder, pc) /\ out' = out /\ idx' = idx)
            /\ pc = "write" => (out' = Append(out, idx) /\ pc' = "sleep" /\ idx' = idx)
            /\ pc = "sleep" => (out' = out /\ pc' = "loop" /\ idx' = idx)
            /\ out' # out => pc = "write"
            /\ pc # "start" =>
                  \A v \in Variants :
                     /\ stats'[v] # stats[v] => pc = v
                     /\ \A f \in {"count_id_rank", "count_label_rank"} :
                           stats'[v][f] \in {stats[v][f], stats[v][f] + 1}]_vars

\* Of two benchmarks the first was skipped, the second written: the run has
\* ended with one output row, and that row counted for NameRes.
C9_Witness ==
    /\ tool = "benchmark" /\ pc = "done" /\ nBench = 2
    /\ out = <<2>>
    /\ stats["nameres"]["count_id_rank"] = 1

\* C10 as claimed: a sleep lies between the handling of any two consecutive
\* input rows, whatever became of the first: when row k has been taken, at
\* least k - 1 sleeps have been taken.
C10_SleepBetweenAnyTwoRows ==
    (tool \in {"benchmark", "comparator"} /\ idx >= 1) => sleeps >= idx - 1

\* C10, amended: in both tools the sleep is the last step of the handling of
\* a row that was annotated live: it follows the write of the row and comes
\* before the next row is taken.  A row that is skipped, or written from the
\* continuation cache, is followed by no sleep.
C10_SleepAfterLiveRowsOnly ==
    /\ [][(tool = "benchmark" \/ tool = "comparator") =>
            /\ pc = "write" => (pc' = "sleep" /\ sleeps' = sleeps)
            /\ pc = "sleep" => (sleeps' = sleeps + 1 /\ pc' = "loop" /\ idx' = idx)
            /\ sleeps' # sleeps => pc = "sleep"
            /\ TakesRow => (pc = "loop" /\ sleeps' = sleeps)]_vars
    /\ [](tool = "benchmark" =>
            (pc \in {"loop", "done"} => sleeps = Len(out)))
    /\ [](tool = "comparator" => sleeps <= Len(out))

\* The comparator annotated its first row live and slept, then wrote its
\* second row from the cache and did not sleep.
C10_Witness ==
    /\ CacheHit /\ pc = "loop"
    /\ idx = 2 /\ out = <<1, 2>>
    /\ DOMAIN written # {}
    /\ sleeps = 1

\* The order of the four calls of a row, as the code of each tool has them.
FourCalls ==
    IF tool = "benchmark"
    THEN <<"nameres", "nameres_no_type", "sapbert", "sapbert_no_type">>
    ELSE <<"nameres", "nameres_no_type", "sapbert_no_type", "sapbert">>

\* The loop is in the body of a row that is annotated live.
InLiveRow ==
    /\ tool \in {"benchmark", "comparator"}
    /\ pc \in Variants \cup {"write", "sleep"}

\* C11: in both tools a row that is neither skipped nor served from the
\* cache gets exactly four annotate calls, each service once with the type
\* hint of the row and once without; the calls are issued one after the
\* other in the order of the code, the next one only when the one before has
\* returned or raised; a call that failed is not issued again; and the one
\* output row of the row is written when the four calls are done.
C11_FourCallsInTurn ==
    /\ [](InLiveRow =>
            /\ Len(calls) <= 4
            /\ \A i \in 1..Len(calls) :
                  /\ calls[i].variant = FourCalls[i]
                  /\ calls[i].engine =
                        (IF FourCalls[i] \in {"nameres", "nameres_no_type"}
                         THEN "nameres" ELSE "sapbert")
                  /\ FourCalls[i] \in {"nameres_no_type", "sapbert_no_type"} =>
                        calls[i].hint = EmptyStr
                  /\ FourCalls[i] = "nameres" => calls[i].hint = text_type
                  /\ FourCalls[i] = "sapbert" =>
                        /\ calls[i].hint \in {text_type, S_biolink_prefix \o text_type}
                        /\ (calls[i].hint = EmptyStr) <=> (text_type = EmptyStr)
            /\ pc \in Variants => (Len(calls) < 4 /\ pc = FourCalls[Len(calls) + 1])
            /\ pc \in {"write", "sleep"} =>
                  /\ Len(calls) = 4
                  /\ \A e \in {"nameres", "sapbert"} :
                        Cardinality({i \in 1..4 : calls[i].engine = e}) = 2)
    /\ [][InLiveRow =>
            /\ pc \in Variants =>
                  /\ Len(calls') = Len(calls) + 1
                  /\ \A i \in 1..Len(calls) : calls'[i] = calls[i]
                  /\ calls'[Len(calls')].variant = pc
                  /\ pc' # pc /\ out' = out
            /\ out' # out => (pc = "write" /\ Len(calls) = 4 /\ out' = Append(out, idx))
            /\ pc = "write" => (calls' = calls /\ written' = row)]_vars

\* A comparator row has been written after its four calls, the first of
\* which failed; the typed calls carried the hint of the row, the SAPBERT
\* one with the prefix 'biolink:'.
C11_Witness ==
    /\ tool = "comparator" /\ pc = "sleep"
    /\ Len(calls) = 4 /\ calls[1].raised /\ ~calls[2].raised
    /\ calls[1].hint # EmptyStr
    /\ calls[4].hint = S_biolink_prefix \o calls[1].hint
    /\ written = row /\ out[Len(out)] = idx

\* C12: benchmark tool: the limit RESULTS_TO_DOWNLOAD passed to annotate
\* bounds the list that is ranked, for both services: every identifier rank
\* and label rank recorded in a row lies between 1 and the limit, and so does
\* every rank added to a total.
C12_RanksWithinLimit ==
    tool = "benchmark" =>
        /\ \A v \in Variants : \A what \in {"id_rank", "label_rank"} :
              Col(v, what) \in DOMAIN row =>
                  (row[Col(v, what)] = None
                     \/ row[Col(v, what)] \in 1..RESULTS_TO_DOWNLOAD)
        /\ pc # "start" =>
              \A v \in Variants :
                 /\ stats[v]["total_id_rank"] <=
                       RESULTS_TO_DOWNLOAD * stats[v]["count_id_rank"]
                 /\ stats[v]["total_label_rank"] <=
                       RESULTS_TO_DOWNLOAD * stats[v]["count_label_rank"]

\* The comparator runs without a continuation file: none was given, or the
\* path given does not exist.
NoContinuation ==
    tool = "comparator" /\ (~opts.continue_given \/ ~continue_file.exists)

\* C13: comparator: the result cache is populated only when a continuation
\* file is given and exists.  When none is given, or the path given does not
\* exist, startup does not fail, the cache is empty, and every input row
\* that has the query and the type column is annotated live, with four
\* calls, and not served from a cache.
C13_NoContinuationNoCache ==
    /\ [](tool = "comparator" =>
            /\ DOMAIN result_cache # {} =>
                  (opts.continue_given /\ continue_file.exists)
            /\ NoContinuation => (pc # "crashed" /\ DOMAIN result_cache = {}))
    /\ [][NoContinuation =>
            /\ pc = "start" => pc' = "loop"
            /\ (TakesRow /\ query \in DOMAIN row' /\ biolink_type \in DOMAIN row') =>
                  (pc' = "nameres" /\ out' = out /\ calls' = << >>)
            /\ out' # out => (pc = "write" /\ Len(calls) = 4 /\ written' = row)]_vars

\* A path was given for the continuation file but nothing is there: the
\* second row of the input has been annotated live and written.
C13_Witness ==
    /\ tool = "comparator" /\ opts.continue_given /\ ~continue_file.exists
    /\ pc = "sleep" /\ idx = 2 /\ out = <<1, 2>>
    /\ Len(calls) = 4 /\ written = row
    /\ row[query] = S_aspirin

\* The places of the continuation file whose row has the query text q.
PlacesOf(q) ==
    {i \in 1..Len(continue_file.rows) :
        query \in DOMAIN continue_file.rows[i] /\ continue_file.rows[i][query] = q}

\* The last row of the continuation file with the query text q.
LastRowOf(q) ==
    continue_file.rows[CHOOSE i \in PlacesOf(q) : \A j \in PlacesOf(q) : j <= i]

RankKinds ==
    {[count |-> "count_id_rank", total |-> "total_id_rank", rank |-> "id_rank"],
     [count |-> "count_label_rank", total |-> "total_label_rank", rank |-> "label_rank"]}

\* C15: benchmark tool: for every variant, for identifier and label, the
\* found count and the total rank change only together, the count by one and
\* the total by the rank just recorded; between rows
\* 0 <= count <= rows written so far <= benchmarks loaded; count <= total;
\* hence every printed fraction is at most 1 and every printed average rank
\* is at least 1.
C15_CountersMoveTogether ==
    /\ [](tool = "benchmark" /\ pc # "start" =>
            /\ Len(out) <= idx /\ idx <= nBench
            /\ \A v \in Variants : \A k \in RankKinds :
                  /\ 0 <= stats[v][k.count]
                  /\ stats[v][k.count] <= stats[v][k.total]
                  /\ stats[v][k.count] <= Len(out) + 1
                  /\ pc \in {"loop", "done", "sleep"} => stats[v][k.count] <= Len(out)
            /\ pc = "done" =>
                  \A v \in Variants :
                     /\ \A sec \in {"ranked_id", "ranked_label"} :
                           /\ printed[sec][v].n <= printed[sec][v].d
                           /\ printed[sec][v].d = nBench
                           /\ ~printed[sec][v].na => printed[sec][v].milli <= 1000
                     /\ \A sec \in {"average_id", "average_label"} :
                           ~printed[sec][v].na => printed[sec][v].milli >= 1000)
    /\ [][(tool = "benchmark" /\ pc # "start") =>
            \A v \in Variants : \A k \in RankKinds :
               (stats'[v][k.count] # stats[v][k.count]
                  \/ stats'[v][k.total] # stats[v][k.total]) =>
                     /\ pc = v
                     /\ stats'[v][k.count] = stats[v][k.count] + 1
                     /\ row'[Col(v, k.rank)] >= 1
                     /\ stats'[v][k.total] = stats[v][k.total] + row'[Col(v, k.rank)]]_vars

\* Two benchmarks were processed and SAPBERT found the identifier of both at
\* rank 11: the fraction printed is 1, the average printed for NameRes is 1.
C15_Witness ==
    /\ tool = "benchmark" /\ pc = "done" /\ nBench = 2 /\ Len(out) = 2
    /\ stats["sapbert"]["count_id_rank"] = 2
    /\ stats["sapbert"]["total_id_rank"] = 22
    /\ printed["ranked_id"]["sapbert"].milli = 1000
    /\ stats["nameres"]["count_id_rank"] = 1
    /\ printed["average_id"]["nameres"].milli = 1000

\* C16: benchmark tool: a row whose expected identifier is empty never gets
\* an identifier rank and never changes an identifier counter, whatever the
\* services return, also results without curie; likewise a row whose expected
\* label is empty never gets a label rank, also when a result has no label.
C16_NoRankWithoutExpectedValue ==
    [][(tool = "benchmark" /\ pc \in Variants) =>
          /\ benchm.CorrectID = EmptyStr =>
                /\ row'[Col(pc, "id_rank")] = None
                /\ \A v \in Variants :
                      /\ stats'[v]["count_id_rank"] = stats[v]["count_id_rank"]
                      /\ stats'[v]["total_id_rank"] = stats[v]["total_id_rank"]
          /\ benchm.CorrectLabel = EmptyStr =>
                /\ row'[Col(pc, "label_rank")] = None
                /\ \A v \in Variants :
                      /\ stats'[v]["count_label_rank"] = stats[v]["count_label_rank"]
                      /\ stats'[v]["total_label_rank"] = stats[v]["total_label_rank"]]_vars

\* C17: in both tools the output rows are in the order of the input rows
\* they were written for, and no input row has more than one: a row is
\* written at the end of the rows written so far, for the input row at hand,
\* and before the next input row is taken, be it written from the
\* continuation cache or after live calls.
C17_OutputInInputOrder ==
    /\ [](tool \in {"benchmark", "comparator"} =>
            /\ \A i \in 1..Len(out) : out[i] \in 1..idx
            /\ \A i \in 1..Len(out) : \A j \in 1..Len(out) : i < j => out[i] < out[j]
            /\ pc = "sleep" => (Len(out) > 0 /\ out[Len(out)] = idx))
    /\ [][(tool = "benchmark" \/ tool = "comparator") =>
            /\ out' # out =>
                  /\ out' = Append(out, idx')
                  /\ Len(out) > 0 => out[Len(out)] < idx'
                  /\ pc = "write" \/ (tool = "comparator" /\ TakesRow)
            /\ TakesRow => pc = "loop"
            /\ pc \in Variants \cup {"write", "sleep"} => idx' = idx
            /\ pc = "write" => out' # out
            /\ (/\ tool = "comparator" /\ TakesRow /\ pc' = "loop"
                /\ query \in DOMAIN row' /\ row'[query] \in DOMAIN result_cache) =>
                  out' # out]_vars

\* The comparator wrote its first row from the cache and its second row
\* after four live calls.
C17_Witness ==
    /\ tool = "comparator" /\ pc = "sleep" /\ idx = 2
    /\ out = <<1, 2>> /\ sleeps = 0
    /\ Len(calls) = 4 /\ written = row
    /\ row[query] = S_kidney
    /\ S_aspirin \in DOMAIN result_cache

=============================================================================
